---- MODULE Spec2Model ----
(***************************************************************************)
(* Evaluation of points and derivatives on B-spline / NURBS curves and     *)
(* surfaces (nurbstk/evaluate.h).                                          *)
(*                                                                         *)
(* Scalars of type T are modelled as exact rationals <<n, d>> in lowest    *)
(* terms with d > 0.  The pair <<0, 0>> stands for a non-finite value (the *)
(* result of a division by zero, inf or NaN), which every arithmetic       *)
(* operation propagates.  C++ containers are functions over 0 .. size-1,   *)
(* so every index expression is the one of the source.                     *)
(***************************************************************************)
EXTENDS Integers, Sequences, FiniteSets, TLC

(***************************************************************************)
(* Scalar arithmetic.                                                      *)
(***************************************************************************)
Abs(n) == IF n < 0 THEN -n ELSE n

RECURSIVE GCD(_, _)
GCD(a, b) == IF b = 0 THEN a ELSE GCD(b, a % b)

NonFinite == <<0, 0>>

IsFinite(x) == x[2] # 0

Rat(n, d) ==
    IF d = 0 THEN NonFinite
    ELSE LET g == GCD(Abs(n), Abs(d))
             s == IF d < 0 THEN -1 ELSE 1
         IN  <<(s * n) \div g, (s * d) \div g>>

Num(n) == <<n, 1>>

Zero == Num(0)

One == Num(1)

\* The operands are reduced against each other before they are multiplied,
\* so that no intermediate product is larger than the result requires.
RAdd(x, y) ==
    IF x[2] = 0 \/ y[2] = 0 THEN NonFinite
    ELSE LET g == GCD(x[2], y[2])
         IN  Rat(x[1] * (y[2] \div g) + y[1] * (x[2] \div g), (x[2] \div g) * y[2])

RSub(x, y) == RAdd(x, <<-y[1], y[2]>>)

RMul(x, y) ==
    IF x[2] = 0 \/ y[2] = 0 THEN NonFinite
    ELSE LET g1 == GCD(Abs(x[1]), y[2])
             g2 == GCD(Abs(y[1]), x[2])
         IN  Rat((x[1] \div g1) * (y[1] \div g2), (x[2] \div g2) * (y[2] \div g1))

RDiv(x, y) ==
    IF x[2] = 0 \/ y[2] = 0 \/ y[1] = 0 THEN NonFinite
    ELSE RMul(x, IF y[1] < 0 THEN <<-y[2], -y[1]>> ELSE <<y[2], y[1]>>)

RLess(x, y) == x[1] * y[2] < y[1] * x[2]

RLeq(x, y) == x[1] * y[2] <= y[1] * x[2]

(***************************************************************************)
(* Containers (std::vector, glm::vec) as functions over 0 .. size-1.       *)
(***************************************************************************)
Size(a) == Cardinality(DOMAIN a)

Empty == <<>>

\* Stored(f) is f.  TLC evaluates a function constructor anew at every
\* application; comparing it makes TLC keep the evaluated function.
Stored(f) == IF f = f THEN f ELSE f

Resize(a, n, fill) ==
    Stored([i \in 0 .. n - 1 |-> IF i \in DOMAIN a THEN a[i] ELSE fill])

VZero(d) == Stored([i \in 0 .. d - 1 |-> Zero])

VAdd(a, b) == Stored([i \in DOMAIN a |-> RAdd(a[i], b[i])])

VSub(a, b) == Stored([i \in DOMAIN a |-> RSub(a[i], b[i])])

VScale(s, a) == Stored([i \in DOMAIN a |-> RMul(s, a[i])])

VDiv(a, s) == Stored([i \in DOMAIN a |-> RDiv(a[i], s)])

VFinite(a) == \A i \in DOMAIN a : IsFinite(a[i])

(***************************************************************************)
(* util.h                                                                  *)
(***************************************************************************)
cartesianToHomogenous(pt, w) ==
    Stored([i \in 0 .. Size(pt) |-> IF i < Size(pt) THEN RMul(w, pt[i]) ELSE w])

homogenousToCartesian(ptw) ==
    Stored([i \in 0 .. Size(ptw) - 2 |-> RDiv(ptw[i], ptw[Size(ptw) - 1])])

truncateHomogenous(ptw) == Stored([i \in 0 .. Size(ptw) - 2 |-> ptw[i]])

RECURSIVE binomial(_, _)
binomial(n, k) ==
    IF k = 0 \/ k = n THEN 1
    ELSE IF k < 0 \/ k > n THEN 0
    ELSE binomial(n - 1, k - 1) + binomial(n - 1, k)

(***************************************************************************)
(* basis.h                                                                 *)
(***************************************************************************)
findSpan(degree, knots, u) ==
    LET n == Size(knots) - degree - 2
    IN  IF u = knots[n + 1] THEN n
        ELSE CHOOSE span \in degree .. n :
                 RLeq(knots[span], u) /\ RLess(u, knots[span + 1])

\* N_{i,p}(u) on the knot span `span` (Cox-de Boor, 0/0 taken as 0).
RECURSIVE BasisFun(_, _, _, _, _)
BasisFun(i, p, span, knots, u) ==
    IF p = 0 THEN (IF i = span THEN One ELSE Zero)
    ELSE LET left  == BasisFun(i, p - 1, span, knots, u)
             right == BasisFun(i + 1, p - 1, span, knots, u)
             a == IF left = Zero THEN Zero
                  ELSE RMul(RDiv(RSub(u, knots[i]), RSub(knots[i + p], knots[i])), left)
             b == IF right = Zero THEN Zero
                  ELSE RMul(RDiv(RSub(knots[i + p + 1], u),
                                 RSub(knots[i + p + 1], knots[i + 1])), right)
         IN  RAdd(a, b)

\* k-th derivative of N_{i,p} at u on the knot span `span`.
RECURSIVE DerBasisFun(_, _, _, _, _, _)
DerBasisFun(k, i, p, span, knots, u) ==
    IF k = 0 THEN BasisFun(i, p, span, knots, u)
    ELSE IF k > p THEN Zero
    ELSE LET left  == DerBasisFun(k - 1, i, p - 1, span, knots, u)
             right == DerBasisFun(k - 1, i + 1, p - 1, span, knots, u)
             a == IF left = Zero THEN Zero
                  ELSE RDiv(left, RSub(knots[i + p], knots[i]))
             b == IF right = Zero THEN Zero
                  ELSE RDiv(right, RSub(knots[i + p + 1], knots[i + 1]))
         IN  RMul(Num(p), RSub(a, b))

bsplineBasis(degree, span, knots, u) ==
    Stored([j \in 0 .. degree |-> BasisFun(span - degree + j, degree, span, knots, u)])

bsplineDerBasis(degree, span, knots, u, num_ders) ==
    Stored([k \in 0 .. num_ders |->
        [j \in 0 .. degree |-> DerBasisFun(k, span - degree + j, degree, span, knots, u)]])

isValidRelation(degree, num_knots, num_ctrl_pts) ==
    num_knots = num_ctrl_pts + degree + 1

(***************************************************************************)
(* Curve evaluators.  dim is the template parameter; the evaluators that   *)
(* lift to homogeneous coordinates call the non-rational ones with dim+1.  *)
(* An in/out parameter is passed as its value before the call and the      *)
(* operator yields its value after the call.                               *)
(***************************************************************************)
\* curvePoint with the control points of the span taken in reverse order.
curvePoint_Reversed(dim, u, degree, knots, control_points) ==
    LET span == findSpan(degree, knots, u)
        N    == bsplineBasis(degree, span, knots, u)
        point[j \in 0 .. degree + 1] ==
            IF j = 0 THEN VZero(dim)
            ELSE VAdd(point[j - 1], VScale(N[j - 1], control_points[span - (j - 1)]))
    IN  point[degree + 1]

curvePoint(dim, u, degree, knots, control_points) ==
    LET span == findSpan(degree, knots, u)
        N    == bsplineBasis(degree, span, knots, u)
        \* point after the first j iterations of the loop over j
        point[j \in 0 .. degree + 1] ==
            IF j = 0 THEN VZero(dim)
            ELSE VAdd(point[j - 1],
                      VScale(N[j - 1], control_points[span - degree + (j - 1)]))
    IN  point[degree + 1]

\* Homogeneous coordinates of the control points of a curve.
curveCw(control_points, weights) ==
    Stored([i \in 0 .. Size(control_points) - 1 |->
               cartesianToHomogenous(control_points[i], weights[i])])

rationalCurvePoint(dim, u, degree, knots, control_points, weights) ==
    LET Cw == curveCw(control_points, weights)
        pointw == curvePoint(dim + 1, u, degree, knots, Cw)
    IN  homogenousToCartesian(pointw)

curveDerivatives(dim, u, degree, knots, control_points, num_ders, curve_ders) ==
    LET \* clear(); resize(num_ders + 1): value-initialised elements
        resized == Resize(Empty, num_ders + 1, VZero(dim))
        zeroed  == Stored([k \in DOMAIN resized |->
                       IF degree + 1 <= k /\ k <= num_ders THEN VZero(dim)
                       ELSE resized[k]])
        span == findSpan(degree, knots, u)
        ders == bsplineDerBasis(degree, span, knots, u, num_ders)
        du   == IF num_ders < degree THEN num_ders ELSE degree
        sum(k) ==
            LET acc[j \in 0 .. degree + 1] ==
                    IF j = 0 THEN VZero(dim)
                    ELSE VAdd(acc[j - 1],
                              VScale(ders[k][j - 1],
                                     control_points[span - degree + (j - 1)]))
            IN  acc[degree + 1]
    IN  Stored([k \in DOMAIN zeroed |-> IF k <= du THEN sum(k) ELSE zeroed[k]])

\* The split of Cwders into coordinates and weights.  The loop copies the
\* components 0 .. dim - 2 into Aderi and never assigns Aderi[dim - 1], which
\* keeps the value uninit that the unassigned glm::vec happens to hold.
rationalCurveDerivativesAders(dim, Cwders, uninit) ==
    Stored([k \in DOMAIN Cwders |->
               [i \in 0 .. dim - 1 |-> IF i < dim - 1 THEN Cwders[k][i] ELSE uninit]])

rationalCurveDerivativesWders(dim, Cwders) ==
    Stored([k \in DOMAIN Cwders |-> Cwders[k][dim - 1]])

rationalCurveDerivatives(dim, u, degree, knots, control_points, weights, num_ders, curve_ders, uninit) ==
    LET resized == Resize(Empty, num_ders + 1, VZero(dim))
        Cw == curveCw(control_points, weights)
        Cwders == curveDerivatives(dim + 1, u, degree, knots, Cw, num_ders, Empty)
        Aders == rationalCurveDerivativesAders(dim, Cwders, uninit)
        wders == rationalCurveDerivativesWders(dim, Cwders)
        \* curve_ders after the first k iterations of the loop over k
        tbl[k \in 0 .. num_ders + 1] ==
            IF k = 0 THEN resized
            ELSE LET prev == tbl[k - 1]
                     kk   == k - 1
                     vv[i \in 0 .. kk] ==
                         IF i = 0 THEN Aders[kk]
                         ELSE VSub(vv[i - 1],
                                   VScale(RMul(Num(binomial(kk, i)), wders[i]),
                                          prev[kk - i]))
                 IN  Stored([prev EXCEPT ![kk] = VDiv(vv[kk], wders[0])])
    IN  tbl[num_ders + 1]

(***************************************************************************)
(* Surface evaluators.                                                     *)
(***************************************************************************)
surfacePoint(dim, u, v, degree_u, degree_v, knots_u, knots_v, control_points) ==
    LET span_u == findSpan(degree_u, knots_u, u)
        span_v == findSpan(degree_v, knots_v, v)
        Nu == bsplineBasis(degree_u, span_u, knots_u, u)
        Nv == bsplineBasis(degree_v, span_v, knots_v, v)
        temp(l) ==
            LET acc[k \in 0 .. degree_u + 1] ==
                    IF k = 0 THEN VZero(dim)
                    ELSE VAdd(acc[k - 1],
                              VScale(Nu[k - 1],
                                     control_points[span_u - degree_u + (k - 1)]
                                                   [span_v - degree_v + l]))
            IN  acc[degree_u + 1]
        point[l \in 0 .. degree_v + 1] ==
            IF l = 0 THEN VZero(dim)
            ELSE VAdd(point[l - 1], VScale(Nv[l - 1], temp(l - 1)))
    IN  point[degree_v + 1]

\* Homogeneous coordinates of the control points of a surface.
surfaceCw(control_points, weights) ==
    Stored([i \in 0 .. Size(control_points) - 1 |->
               [j \in 0 .. Size(control_points[0]) - 1 |->
                   cartesianToHomogenous(control_points[i][j], weights[i][j])]])

rationalSurfacePoint(dim, u, v, degree_u, degree_v, knots_u, knots_v, control_points, weights) ==
    LET Cw == surfaceCw(control_points, weights)
        pointw == surfacePoint(dim + 1, u, v, degree_u, degree_v, knots_u, knots_v, Cw)
    IN  homogenousToCartesian(pointw)

\* surf_ders.clear(); surf_ders.resize(num_ders + 1); every row
\* resize(num_ders + 1): the elements are value-initialised.
\* The resize without the clear() before it: entries of an earlier call stay.
surfaceDerivativesResized_NoClear(dim, num_ders, surf_ders) ==
    Stored([k \in 0 .. num_ders |->
               Resize(IF k \in DOMAIN surf_ders THEN surf_ders[k] ELSE Empty,
                      num_ders + 1, VZero(dim))])

surfaceDerivativesResized(dim, num_ders, surf_ders) ==
    Resize(Empty, num_ders + 1, Resize(Empty, num_ders + 1, VZero(dim)))

\* The number dd of derivatives in v computed for the order k in u.
\* dd without the cap at num_ders - k: every l up to dv is computed.
surfaceDerivativesDd_NoCap(num_ders, k, dv) == dv

surfaceDerivativesDd(num_ders, k, dv) ==
    LET nk == num_ders - k IN IF nk < dv THEN nk ELSE dv

surfaceDerivatives(dim, u, v, degree_u, degree_v, knots_u, knots_v, control_points, num_ders, surf_ders) ==
    LET resized == surfaceDerivativesResized(dim, num_ders, surf_ders)
        zeroed  == Stored([k \in DOMAIN resized |-> [l \in DOMAIN resized[k] |->
                       IF /\ degree_u + 1 <= k /\ k <= num_ders
                          /\ degree_v + 1 <= l /\ l <= num_ders
                       THEN VZero(dim) ELSE resized[k][l]]])
        span_u == findSpan(degree_u, knots_u, u)
        span_v == findSpan(degree_v, knots_v, v)
        ders_u == bsplineDerBasis(degree_u, span_u, knots_u, u, num_ders)
        ders_v == bsplineDerBasis(degree_v, span_v, knots_v, v, num_ders)
        du == IF num_ders < degree_u THEN num_ders ELSE degree_u
        dv == IF num_ders < degree_v THEN num_ders ELSE degree_v
        temp(k) ==
            Stored([s \in 0 .. degree_v |->
                LET acc[r \in 0 .. degree_u + 1] ==
                        IF r = 0 THEN VZero(dim)
                        ELSE VAdd(acc[r - 1],
                                  VScale(ders_u[k][r - 1],
                                         control_points[span_u - degree_u + (r - 1)]
                                                       [span_v - degree_v + s]))
                IN  acc[degree_u + 1]])
        dd(k) == surfaceDerivativesDd(num_ders, k, dv)
        entry(k, l) ==
            LET tmp == temp(k)
                acc[s \in 0 .. degree_v + 1] ==
                    IF s = 0 THEN VZero(dim)
                    ELSE VAdd(acc[s - 1], VScale(ders_v[l][s - 1], tmp[s - 1]))
            IN  acc[degree_v + 1]
    IN  Stored([k \in DOMAIN zeroed |-> [l \in DOMAIN zeroed[k] |->
            IF k <= du /\ l <= dd(k) THEN entry(k, l) ELSE zeroed[k][l]]])

\* The entry (k, l) of the loop body, computed from the table surf_ders.
rationalSurfaceDerivativesEntry(dim, homo_ders, Aders, surf_ders, k, l) ==
    LET derv[j \in 0 .. l] ==
            IF j = 0 THEN Aders[k][l]
            ELSE VSub(derv[j - 1],
                      VScale(RMul(Num(binomial(l, j)), homo_ders[0][j][dim]),
                             surf_ders[k][l - j]))
        tmp(i) ==
            LET t[j \in 0 .. l] ==
                    IF j = 0 THEN VZero(dim)
                    ELSE VSub(t[j - 1],
                              VScale(RMul(Num(binomial(l, j)), homo_ders[i][j][dim]),
                                     surf_ders[k - 1][l - j]))
            IN  t[l]
        der[i \in 0 .. k] ==
            IF i = 0 THEN derv[l]
            ELSE VSub(VSub(der[i - 1],
                           VScale(RMul(Num(binomial(k, i)), homo_ders[i][0][dim]),
                                  surf_ders[k - i][l])),
                      VScale(Num(binomial(k, i)), tmp(i)))
    IN  VScale(RDiv(One, homo_ders[0][0][dim]), der[k])

\* The loops over k and l, from the iteration (k, l) on.
RECURSIVE rationalSurfaceDerivativesLoop(_, _, _, _, _, _, _)
rationalSurfaceDerivativesLoop(dim, homo_ders, Aders, num_ders, surf_ders, k, l) ==
    IF ~(k < num_ders + 1) THEN surf_ders
    ELSE LET \* surf_ders[k].resize(num_ders + 1), before the loop over l
             row == IF l = 0
                    THEN Stored([surf_ders EXCEPT
                                    ![k] = Resize(surf_ders[k], num_ders + 1, VZero(dim))])
                    ELSE surf_ders
         IN  IF l < num_ders - k + 1
             THEN rationalSurfaceDerivativesLoop(
                      dim, homo_ders, Aders, num_ders,
                      Stored([row EXCEPT ![k][l] =
                                 rationalSurfaceDerivativesEntry(dim, homo_ders, Aders,
                                                                 row, k, l)]),
                      k, l + 1)
             ELSE rationalSurfaceDerivativesLoop(dim, homo_ders, Aders, num_ders,
                                                 row, k + 1, 0)

\* The split of rationalCurveDerivatives applied to the surface table: only
\* the first dim - 1 components are copied, the last one is left at zero.
rationalSurfaceDerivativesAders_Partial(dim, homo_ders) ==
    Stored([i \in 0 .. Size(homo_ders) - 1 |->
               [j \in 0 .. Size(homo_ders[0]) - 1 |->
                   [c \in 0 .. dim - 1 |->
                       IF c < dim - 1 THEN homo_ders[i][j][c] ELSE Zero]]])

\* Aders: the homogeneous derivatives with the weight component dropped.
rationalSurfaceDerivativesAders(dim, homo_ders) ==
    Stored([i \in 0 .. Size(homo_ders) - 1 |->
               [j \in 0 .. Size(homo_ders[0]) - 1 |->
                   truncateHomogenous(homo_ders[i][j])]])

rationalSurfaceDerivatives(dim, u, v, degree_u, degree_v, knots_u, knots_v, control_points, weights, num_ders, surf_ders) ==
    LET homo_cp == surfaceCw(control_points, weights)
        homo_ders == surfaceDerivatives(dim + 1, u, v, degree_u, degree_v,
                                        knots_u, knots_v, homo_cp, num_ders, Empty)
        Aders == rationalSurfaceDerivativesAders(dim, homo_ders)
        \* surf_ders.resize(num_ders + 1): the rows kept are left as they were
        rows == Resize(surf_ders, num_ders + 1, Empty)
    IN  rationalSurfaceDerivativesLoop(dim, homo_ders, Aders, num_ders, rows, 0, 0)

(***************************************************************************)
(* The indices the evaluators use.  An access a[i] is the pair <<i, n>> of *)
(* the index and the size n of the container at the time of the access;    *)
(* a[i][j] is the access to the row and the access to its element.         *)
(***************************************************************************)
At(a, i) == <<i, Size(a)>>

At2(a, i, j) == {<<i, Size(a)>>, <<j, IF i \in DOMAIN a THEN Size(a[i]) ELSE 0>>}

InBounds(access) == 0 <= access[1] /\ access[1] < access[2]

\* curvePointIdx with the control points read from the span upwards.
curvePointIdx_FromSpan(dim, u, degree, knots, control_points) ==
    LET span == findSpan(degree, knots, u)
        N    == bsplineBasis(degree, span, knots, u)
    IN  {<<i, dim>> : i \in 0 .. dim - 1}
        \cup UNION {{At(N, j), At(control_points, span + j)} : j \in 0 .. degree}

curvePointIdx(dim, u, degree, knots, control_points) ==
    LET span == findSpan(degree, knots, u)
        N    == bsplineBasis(degree, span, knots, u)
    IN  {<<i, dim>> : i \in 0 .. dim - 1}
        \cup UNION {{At(N, j), At(control_points, span - degree + j)} : j \in 0 .. degree}

rationalCurvePointIdx(dim, u, degree, knots, control_points, weights) ==
    UNION {{At(control_points, i), At(weights, i)} : i \in 0 .. Size(control_points) - 1}
    \cup curvePointIdx(dim + 1, u, degree, knots, curveCw(control_points, weights))

curveDerivativesIdx(dim, u, degree, knots, control_points, num_ders) ==
    LET span == findSpan(degree, knots, u)
        ders == bsplineDerBasis(degree, span, knots, u, num_ders)
        du   == IF num_ders < degree THEN num_ders ELSE degree
    IN  {<<k, num_ders + 1>> : k \in degree + 1 .. num_ders}
        \cup UNION {{<<k, num_ders + 1>>}
                    \cup UNION {At2(ders, k, j)
                                \cup {At(control_points, span - degree + j)} :
                                    j \in 0 .. degree} :
                        k \in 0 .. du}

rationalCurveDerivativesIdx(dim, u, degree, knots, control_points, weights, num_ders) ==
    LET Cw == curveCw(control_points, weights)
        Cwders == curveDerivatives(dim + 1, u, degree, knots, Cw, num_ders, Empty)
    IN  UNION {{At(control_points, i), At(weights, i)} :
                  i \in 0 .. Size(control_points) - 1}
        \cup curveDerivativesIdx(dim + 1, u, degree, knots, Cw, num_ders)
        \* Aderi[i] = val[i]; wders.push_back(val[dim - 1])
        \cup UNION {{<<i, dim>>, <<i, dim + 1>>} : i \in 0 .. dim - 2}
        \cup {<<dim - 1, dim + 1>>}
        \* Aders[k], wders[i], curve_ders[k - i], wders[0], curve_ders[k]
        \cup UNION {{<<k, Size(Cwders)>>, <<0, Size(Cwders)>>, <<k, num_ders + 1>>}
                    \cup UNION {{<<i, Size(Cwders)>>, <<k - i, num_ders + 1>>} :
                                   i \in 1 .. k} :
                        k \in 0 .. num_ders}

surfacePointIdx(dim, u, v, degree_u, degree_v, knots_u, knots_v, control_points) ==
    LET span_u == findSpan(degree_u, knots_u, u)
        span_v == findSpan(degree_v, knots_v, v)
        Nu == bsplineBasis(degree_u, span_u, knots_u, u)
        Nv == bsplineBasis(degree_v, span_v, knots_v, v)
    IN  {<<i, dim>> : i \in 0 .. dim - 1}
        \cup UNION {{At(Nv, l)}
                    \cup UNION {{At(Nu, k)}
                                \cup At2(control_points, span_u - degree_u + k,
                                         span_v - degree_v + l) :
                                    k \in 0 .. degree_u} :
                        l \in 0 .. degree_v}

\* control_points[0], control_points[i][j], weights[i][j]
surfaceCwIdx(control_points, weights) ==
    (IF Size(control_points) > 0 THEN {At(control_points, 0)} ELSE {})
    \cup UNION {UNION {At2(control_points, i, j) \cup At2(weights, i, j) :
                          j \in 0 .. Size(control_points[0]) - 1} :
                   i \in 0 .. Size(control_points) - 1}

rationalSurfacePointIdx(dim, u, v, degree_u, degree_v, knots_u, knots_v, control_points, weights) ==
    surfaceCwIdx(control_points, weights)
    \cup surfacePointIdx(dim + 1, u, v, degree_u, degree_v, knots_u, knots_v,
                         surfaceCw(control_points, weights))

surfaceDerivativesIdx(dim, u, v, degree_u, degree_v, knots_u, knots_v, control_points, num_ders) ==
    LET n == num_ders + 1
        span_u == findSpan(degree_u, knots_u, u)
        span_v == findSpan(degree_v, knots_v, v)
        ders_u == bsplineDerBasis(degree_u, span_u, knots_u, u, num_ders)
        ders_v == bsplineDerBasis(degree_v, span_v, knots_v, v, num_ders)
        du == IF num_ders < degree_u THEN num_ders ELSE degree_u
        dv == IF num_ders < degree_v THEN num_ders ELSE degree_v
    IN  UNION {{<<k, n>>, <<l, n>>} :
                  k \in degree_u + 1 .. num_ders, l \in degree_v + 1 .. num_ders}
        \cup UNION {UNION {{<<s, degree_v + 1>>}
                           \cup UNION {At2(ders_u, k, r)
                                       \cup At2(control_points, span_u - degree_u + r,
                                                span_v - degree_v + s) :
                                           r \in 0 .. degree_u} :
                               s \in 0 .. degree_v}
                    \cup UNION {{<<k, n>>, <<l, n>>}
                                \cup UNION {At2(ders_v, l, s) \cup {<<s, degree_v + 1>>} :
                                               s \in 0 .. degree_v} :
                                    l \in 0 .. surfaceDerivativesDd(num_ders, k, dv)} :
                        k \in 0 .. du}

rationalSurfaceDerivativesIdx(dim, u, v, degree_u, degree_v, knots_u, knots_v, control_points, weights, num_ders) ==
    LET n == num_ders + 1
        homo_cp == surfaceCw(control_points, weights)
        homo_ders == surfaceDerivatives(dim + 1, u, v, degree_u, degree_v,
                                        knots_u, knots_v, homo_cp, num_ders, Empty)
        \* homo_ders[i][j][dim]
        w(i, j) == At2(homo_ders, i, j) \cup {<<dim, dim + 1>>}
        \* an entry of a row of surf_ders that has been resized
        sd(k, l) == {<<k, n>>, <<l, n>>}
    IN  surfaceCwIdx(control_points, weights)
        \cup surfaceDerivativesIdx(dim + 1, u, v, degree_u, degree_v, knots_u, knots_v,
                                   homo_cp, num_ders)
        \* Aders[i][j] = truncateHomogenous(homo_ders[i][j])
        \cup UNION {{<<i, n>>}
                    \cup UNION {{At(homo_ders, 0), <<j, n>>} \cup At2(homo_ders, i, j) :
                                   j \in 0 .. Size(homo_ders[0]) - 1} :
                        i \in 0 .. Size(homo_ders) - 1}
        \cup UNION {{<<k, n>>}
                    \cup UNION {sd(k, l) \cup w(0, 0)
                                \cup UNION {w(0, j) \cup sd(k, l - j) : j \in 1 .. l}
                                \cup UNION {w(i, 0) \cup sd(k - i, l)
                                            \cup UNION {w(i, j) \cup sd(k - 1, l - j) :
                                                           j \in 1 .. l} :
                                               i \in 1 .. k} :
                                    l \in 0 .. num_ders - k} :
                        k \in 0 .. num_ders}

(***************************************************************************)
(* Bounds of the model and the inputs drawn from them.                     *)
(***************************************************************************)
\* The dimension dim of the control points.
Dim == 2

\* The degrees run over 0 .. MaxDegree.
MaxDegree == 2

\* num_ders runs over 0 .. MaxDers, below, at and above the degrees.
MaxDers == 2

\* The weights run over 1 .. MaxWeight.
MaxWeight == 2

\* Clamped knot vector with m interior knots 1 .. m.
ClampedKnots(degree, m) ==
    [i \in 0 .. 2 * degree + 1 + m |->
        IF i <= degree THEN Zero
        ELSE IF i <= degree + m THEN Num(i - degree)
        ELSE Num(m + 1)]

\* Uniform (unclamped) knot vector 0, 1, .., 2 * degree + 1.
UniformKnots(degree) == [i \in 0 .. 2 * degree + 1 |-> Num(i)]

KnotKinds == {"bezier", "interior", "uniform"}

Knots(kind, degree) ==
    CASE kind = "bezier"   -> ClampedKnots(degree, 0)
      [] kind = "interior" -> ClampedKnots(degree, 1)
      [] kind = "uniform"  -> UniformKnots(degree)

NumCtrlPts(degree, knots) == Size(knots) - degree - 1

DomainMin(degree, knots) == knots[degree]

DomainMax(degree, knots) == knots[NumCtrlPts(degree, knots)]

\* Parameters of the knot domain: its two ends and its midpoint.
Params(degree, knots) ==
    LET lo == DomainMin(degree, knots)
        hi == DomainMax(degree, knots)
    IN  {lo, RAdd(lo, RMul(Rat(1, 2), RSub(hi, lo))), hi}

\* Control point with first coordinate x and last coordinate y.
CtrlPt(x, y) ==
    [d \in 0 .. Dim - 1 |-> IF d = Dim - 1 THEN Num(y) ELSE IF d = 0 THEN Num(x) ELSE Zero]

\* The arch (0,0), (1,2), (2,0) of three points, and its like for n points.
CurveControlPoints(n) == [i \in 0 .. n - 1 |-> CtrlPt(i, 2 * i * (n - 1 - i))]

\* Weights 1, the first or the last of them raised to w.
CurveWeights(n) ==
    {[i \in 0 .. n - 1 |-> Num(IF i = i0 THEN w ELSE 1)] :
        i0 \in {0, n - 1}, w \in 1 .. MaxWeight}

Curves ==
    UNION {{[degree |-> p, knots |-> Knots(kind, p),
             control_points |-> CurveControlPoints(NumCtrlPts(p, Knots(kind, p))),
             weights |-> w] :
               w \in CurveWeights(NumCtrlPts(p, Knots(kind, p)))} :
           p \in 0 .. MaxDegree, kind \in KnotKinds}

\* The grid of control points (i, j + i j (i + j)).
SurfaceControlPoints(n, m) ==
    [i \in 0 .. n - 1 |-> [j \in 0 .. m - 1 |-> CtrlPt(i, j + i * j * (i + j))]]

\* Weights 1, the one of the last control point raised to w.
SurfaceWeights(n, m) ==
    {[i \in 0 .. n - 1 |-> [j \in 0 .. m - 1 |->
         Num(IF i = n - 1 /\ j = m - 1 THEN w ELSE 1)]] : w \in 1 .. MaxWeight}

SurfaceKnotKinds == {"bezier", "interior"}

\* The pairs of degrees: every pair up to MaxDegree but the largest ones.
SurfaceDegrees ==
    {d \in (0 .. MaxDegree) \X (0 .. MaxDegree) : d[1] + d[2] <= MaxDegree + 1}

Surface(p, q, kind, w) ==
    [degree_u |-> p, degree_v |-> q,
     knots_u |-> Knots(kind, p), knots_v |-> Knots(kind, q),
     control_points |-> SurfaceControlPoints(NumCtrlPts(p, Knots(kind, p)),
                                             NumCtrlPts(q, Knots(kind, q))),
     weights |-> w]

Surfaces ==
    UNION {{Surface(d[1], d[2], kind, w) :
               w \in SurfaceWeights(NumCtrlPts(d[1], Knots(kind, d[1])),
                                    NumCtrlPts(d[2], Knots(kind, d[2])))} :
           d \in SurfaceDegrees, kind \in SurfaceKnotKinds}

\* The four corners of the knot domain and its centre.
SurfaceParams(s) ==
    LET U == Params(s.degree_u, s.knots_u)
        V == Params(s.degree_v, s.knots_v)
        frac(x, degree, knots) ==
            RDiv(RSub(x, DomainMin(degree, knots)),
                 RSub(DomainMax(degree, knots), DomainMin(degree, knots)))
        end(x, degree, knots) ==
            x = DomainMin(degree, knots) \/ x = DomainMax(degree, knots)
    IN  {p \in U \X V :
            \/ end(p[1], s.degree_u, s.knots_u) /\ end(p[2], s.degree_v, s.knots_v)
            \/ frac(p[1], s.degree_u, s.knots_u) = frac(p[2], s.degree_v, s.knots_v)}

\* Values an unassigned component of a glm::vec may hold.
UninitValues == {Zero, One}

NoCurve == [degree |-> 0, knots |-> Empty, control_points |-> Empty, weights |-> Empty]

NoSurface == [degree_u |-> 0, degree_v |-> 0, knots_u |-> Empty, knots_v |-> Empty,
              control_points |-> Empty, weights |-> Empty]

(***************************************************************************)
(* The caller: a curve or a surface, the parameters, and the               *)
(* out-parameters it passes to the evaluators and keeps from one call to   *)
(* the next.  A caller evaluates either points or derivatives.             *)
(***************************************************************************)
VARIABLES curve, surface, u, v, task, num_ders, point, curve_ders, surf_ders, last

vars == <<curve, surface, u, v, task, num_ders, point, curve_ders, surf_ders, last>>

Init ==
    /\ \/ /\ curve \in Curves
          /\ surface = NoSurface
          /\ u \in Params(curve.degree, curve.knots)
          /\ v = Zero
       \/ /\ curve = NoCurve
          /\ surface \in Surfaces
          /\ \E p \in SurfaceParams(surface) : u = p[1] /\ v = p[2]
    /\ task \in {"point", "derivatives"}
    /\ num_ders = 0
    /\ point = VZero(Dim)
    /\ curve_ders = Empty
    /\ surf_ders = Empty
    /\ last = "none"

CallCurvePoint ==
    /\ curve # NoCurve /\ task = "point"
    /\ point' = curvePoint(Dim, u, curve.degree, curve.knots, curve.control_points)
    /\ last' = "curvePoint"
    /\ UNCHANGED <<curve, surface, u, v, task, num_ders, curve_ders, surf_ders>>

CallRationalCurvePoint ==
    /\ curve # NoCurve /\ task = "point"
    /\ point' = rationalCurvePoint(Dim, u, curve.degree, curve.knots,
                                   curve.control_points, curve.weights)
    /\ last' = "rationalCurvePoint"
    /\ UNCHANGED <<curve, surface, u, v, task, num_ders, curve_ders, surf_ders>>

CallCurveDerivatives ==
    /\ curve # NoCurve /\ task = "derivatives"
    /\ \E nd \in 0 .. MaxDers :
        /\ num_ders' = nd
        /\ curve_ders' = curveDerivatives(Dim, u, curve.degree, curve.knots,
                                          curve.control_points, nd, curve_ders)
    /\ last' = "curveDerivatives"
    /\ UNCHANGED <<curve, surface, u, v, task, point, surf_ders>>

CallRationalCurveDerivatives ==
    /\ curve # NoCurve /\ task = "derivatives"
    /\ \E nd \in 0 .. MaxDers, uninit \in UninitValues :
        /\ num_ders' = nd
        /\ curve_ders' = rationalCurveDerivatives(Dim, u, curve.degree, curve.knots,
                                                  curve.control_points, curve.weights,
                                                  nd, curve_ders, uninit)
    /\ last' = "rationalCurveDerivatives"
    /\ UNCHANGED <<curve, surface, u, v, task, point, surf_ders>>

CallSurfacePoint ==
    /\ surface # NoSurface /\ task = "point"
    /\ point' = surfacePoint(Dim, u, v, surface.degree_u, surface.degree_v,
                             surface.knots_u, surface.knots_v, surface.control_points)
    /\ last' = "surfacePoint"
    /\ UNCHANGED <<curve, surface, u, v, task, num_ders, curve_ders, surf_ders>>

CallRationalSurfacePoint ==
    /\ surface # NoSurface /\ task = "point"
    /\ point' = rationalSurfacePoint(Dim, u, v, surface.degree_u, surface.degree_v,
                                     surface.knots_u, surface.knots_v,
                                     surface.control_points, surface.weights)
    /\ last' = "rationalSurfacePoint"
    /\ UNCHANGED <<curve, surface, u, v, task, num_ders, curve_ders, surf_ders>>

CallSurfaceDerivatives ==
    /\ surface # NoSurface /\ task = "derivatives"
    /\ \E nd \in 0 .. MaxDers :
        /\ num_ders' = nd
        /\ surf_ders' = surfaceDerivatives(Dim, u, v, surface.degree_u, surface.degree_v,
                                           surface.knots_u, surface.knots_v,
                                           surface.control_points, nd, surf_ders)
    /\ last' = "surfaceDerivatives"
    /\ UNCHANGED <<curve, surface, u, v, task, point, curve_ders>>

CallRationalSurfaceDerivatives ==
    /\ surface # NoSurface /\ task = "derivatives"
    /\ \E nd \in 0 .. MaxDers :
        /\ num_ders' = nd
        /\ surf_ders' = rationalSurfaceDerivatives(Dim, u, v,
                                                   surface.degree_u, surface.degree_v,
                                                   surface.knots_u, surface.knots_v,
                                                   surface.control_points, surface.weights,
                                                   nd, surf_ders)
    /\ last' = "rationalSurfaceDerivatives"
    /\ UNCHANGED <<curve, surface, u, v, task, point, curve_ders>>

Next ==
    \/ CallCurvePoint
    \/ CallRationalCurvePoint
    \/ CallCurveDerivatives
    \/ CallRationalCurveDerivatives
    \/ CallSurfacePoint
    \/ CallRationalSurfacePoint
    \/ CallSurfaceDerivatives
    \/ CallRationalSurfaceDerivatives

Spec == Init /\ [][Next]_vars

(***************************************************************************)
(* The calls on the inputs of the current state, and the values their      *)
(* results are compared with.                                              *)
(***************************************************************************)
CurveAllOnes == \A i \in DOMAIN curve.weights : curve.weights[i] = One

SurfaceAllOnes ==
    \A i \in DOMAIN surface.weights :
        \A j \in DOMAIN surface.weights[i] : surface.weights[i][j] = One

CurveWeightsPositive == \A i \in DOMAIN curve.weights : RLess(Zero, curve.weights[i])

SurfaceWeightsPositive ==
    \A i \in DOMAIN surface.weights :
        \A j \in DOMAIN surface.weights[i] : RLess(Zero, surface.weights[i][j])

CurvePointNow ==
    curvePoint(Dim, u, curve.degree, curve.knots, curve.control_points)

RationalCurvePointNow ==
    rationalCurvePoint(Dim, u, curve.degree, curve.knots, curve.control_points,
                       curve.weights)

CurveDerivativesNow(nd) ==
    curveDerivatives(Dim, u, curve.degree, curve.knots, curve.control_points, nd, Empty)

\* The homogeneous derivatives Cwders of the curve.
CurveCwdersNow(nd) ==
    curveDerivatives(Dim + 1, u, curve.degree, curve.knots,
                     curveCw(curve.control_points, curve.weights), nd, Empty)

SurfacePointNow ==
    surfacePoint(Dim, u, v, surface.degree_u, surface.degree_v,
                 surface.knots_u, surface.knots_v, surface.control_points)

SurfaceDerivativesNow(nd) ==
    surfaceDerivatives(Dim, u, v, surface.degree_u, surface.degree_v,
                       surface.knots_u, surface.knots_v, surface.control_points,
                       nd, Empty)

\* The homogeneous derivatives homo_ders of the surface.
SurfaceHomoDersNow(nd) ==
    surfaceDerivatives(Dim + 1, u, v, surface.degree_u, surface.degree_v,
                       surface.knots_u, surface.knots_v,
                       surfaceCw(surface.control_points, surface.weights), nd, Empty)

RationalSurfaceDerivativesNow(nd) ==
    rationalSurfaceDerivatives(Dim, u, v, surface.degree_u, surface.degree_v,
                               surface.knots_u, surface.knots_v,
                               surface.control_points, surface.weights, nd, Empty)

\* The weight function of the curve and of the surface at the parameter:
\* the weights evaluated as control points of dimension 1.
InterpolatedCurveWeight ==
    curvePoint(1, u, curve.degree, curve.knots,
               [i \in DOMAIN curve.weights |-> [d \in 0 .. 0 |-> curve.weights[i]]])[0]

InterpolatedSurfaceWeight ==
    surfacePoint(1, u, v, surface.degree_u, surface.degree_v,
                 surface.knots_u, surface.knots_v,
                 [i \in DOMAIN surface.weights |->
                     [j \in DOMAIN surface.weights[i] |->
                         [d \in 0 .. 0 |-> surface.weights[i][j]]]])[0]

\* First and last knot repeated degree + 1 times.
Clamped(degree, knots) ==
    /\ \A i \in 0 .. degree : knots[i] = knots[0]
    /\ \A i \in 0 .. degree : knots[Size(knots) - 1 - i] = knots[Size(knots) - 1]

CurveValid ==
    /\ isValidRelation(curve.degree, Size(curve.knots), Size(curve.control_points))
    /\ Size(curve.weights) = Size(curve.control_points)

SurfaceValid ==
    /\ isValidRelation(surface.degree_u, Size(surface.knots_u),
                       Size(surface.control_points))
    /\ \A i \in DOMAIN surface.control_points :
          isValidRelation(surface.degree_v, Size(surface.knots_v),
                          Size(surface.control_points[i]))
    /\ DOMAIN surface.weights = DOMAIN surface.control_points
    /\ \A i \in DOMAIN surface.weights :
          DOMAIN surface.weights[i] = DOMAIN surface.control_points[i]

\* sum over r and s of ders_u[k][r] * ders_v[l][s] * control_points[..][..]
MixedDerivative(k, l) ==
    LET span_u == findSpan(surface.degree_u, surface.knots_u, u)
        span_v == findSpan(surface.degree_v, surface.knots_v, v)
        ders_u == bsplineDerBasis(surface.degree_u, span_u, surface.knots_u, u, k)
        ders_v == bsplineDerBasis(surface.degree_v, span_v, surface.knots_v, v, l)
        row(r) ==
            LET acc[s \in 0 .. surface.degree_v + 1] ==
                    IF s = 0 THEN VZero(Dim)
                    ELSE VAdd(acc[s - 1],
                              VScale(RMul(ders_u[k][r], ders_v[l][s - 1]),
                                     surface.control_points
                                         [span_u - surface.degree_u + r]
                                         [span_v - surface.degree_v + (s - 1)]))
            IN  acc[surface.degree_v + 1]
        tot[r \in 0 .. surface.degree_u + 1] ==
            IF r = 0 THEN VZero(Dim) ELSE VAdd(tot[r - 1], row(r - 1))
    IN  tot[surface.degree_u + 1]

\* sum over i in 1 .. n of term(i)
RECURSIVE VSum(_, _, _)
VSum(term(_), n, dim) ==
    IF n = 0 THEN VZero(dim) ELSE VAdd(VSum(term, n - 1, dim), term(n))

(***************************************************************************)
(* C1: with every weight 1, rationalCurvePoint returns the point of        *)
(* curvePoint and rationalCurveDerivatives returns, for every order        *)
(* 0 .. num_ders, the vector of curveDerivatives.                          *)
(***************************************************************************)
C1_UnitWeightsCurve ==
    CurveAllOnes =>
        /\ last = "rationalCurvePoint" => point = CurvePointNow
        /\ last = "rationalCurveDerivatives" =>
              \A k \in 0 .. num_ders : curve_ders[k] = CurveDerivativesNow(num_ders)[k]

(***************************************************************************)
(* C2: with every weight 1, rationalSurfacePoint returns the point of      *)
(* surfacePoint, and rationalSurfaceDerivatives called with an empty       *)
(* output table returns the table of surfaceDerivatives.                   *)
(***************************************************************************)
C2_UnitWeightsSurface ==
    [][SurfaceAllOnes =>
          /\ last' = "rationalSurfacePoint" => point' = SurfacePointNow
          /\ (last' = "rationalSurfaceDerivatives" /\ surf_ders = Empty) =>
                surf_ders' = SurfaceDerivativesNow(num_ders')]_vars

C2_Witness ==
    /\ last = "rationalSurfaceDerivatives"
    /\ SurfaceAllOnes
    /\ num_ders >= 2
    /\ surf_ders = SurfaceDerivativesNow(num_ders)
    /\ surf_ders[1][1] # VZero(Dim)

(***************************************************************************)
(* C3: with strictly positive weights, the value a rational evaluator      *)
(* divides by is the interpolated weight and is strictly positive, and the *)
(* result is finite, whatever the control points are.                      *)
(***************************************************************************)
C3_PositiveDivisor ==
    /\ (last = "rationalCurvePoint" /\ CurveWeightsPositive) =>
          /\ CurveCwdersNow(0)[0][Dim] = InterpolatedCurveWeight
          /\ RLess(Zero, CurveCwdersNow(0)[0][Dim])
          /\ VFinite(point)
    /\ (last = "rationalCurveDerivatives" /\ CurveWeightsPositive) =>
          LET divisor == rationalCurveDerivativesWders(Dim, CurveCwdersNow(num_ders))[0]
          IN  /\ divisor = InterpolatedCurveWeight
              /\ RLess(Zero, divisor)
              /\ \A k \in DOMAIN curve_ders : VFinite(curve_ders[k])
    /\ (last = "rationalSurfacePoint" /\ SurfaceWeightsPositive) =>
          /\ SurfaceHomoDersNow(0)[0][0][Dim] = InterpolatedSurfaceWeight
          /\ RLess(Zero, SurfaceHomoDersNow(0)[0][0][Dim])
          /\ VFinite(point)
    /\ (last = "rationalSurfaceDerivatives" /\ SurfaceWeightsPositive) =>
          /\ SurfaceHomoDersNow(num_ders)[0][0][Dim] = InterpolatedSurfaceWeight
          /\ RLess(Zero, SurfaceHomoDersNow(num_ders)[0][0][Dim])
          /\ \A k \in DOMAIN surf_ders :
                \A l \in DOMAIN surf_ders[k] : VFinite(surf_ders[k][l])

(***************************************************************************)
(* C4 as stated: every entry (k, l) of the table of surfaceDerivatives     *)
(* with k, l in 0 .. num_ders, k <= degree_u and l <= degree_v is the      *)
(* mixed derivative sum, the pairs with k + l > num_ders included.         *)
(***************************************************************************)
C4_AllEntriesMixedDerivative ==
    last = "surfaceDerivatives" =>
        /\ Size(surf_ders) = num_ders + 1
        /\ \A k \in 0 .. num_ders : Size(surf_ders[k]) = num_ders + 1
        /\ \A k \in 0 .. num_ders, l \in 0 .. num_ders :
              (k <= surface.degree_u /\ l <= surface.degree_v) =>
                  surf_ders[k][l] = MixedDerivative(k, l)

(***************************************************************************)
(* C4 as amended: the entries with k + l <= num_ders are the mixed         *)
(* derivative sum; the entries with k + l > num_ders are not computed and  *)
(* are the zero vector.                                                    *)
(***************************************************************************)
C4_EntriesUpToOrder ==
    last = "surfaceDerivatives" =>
        /\ Size(surf_ders) = num_ders + 1
        /\ \A k \in 0 .. num_ders : Size(surf_ders[k]) = num_ders + 1
        /\ \A k \in 0 .. num_ders, l \in 0 .. num_ders :
              (k <= surface.degree_u /\ l <= surface.degree_v) =>
                  surf_ders[k][l] = IF k + l <= num_ders THEN MixedDerivative(k, l)
                                    ELSE VZero(Dim)

C4_Witness ==
    /\ last = "surfaceDerivatives"
    /\ num_ders >= 1
    /\ \E k \in 1 .. num_ders, l \in 1 .. num_ders :
          /\ k <= surface.degree_u /\ l <= surface.degree_v
          /\ k + l > num_ders
          /\ MixedDerivative(k, l) # VZero(Dim)
    /\ \E k \in 0 .. num_ders, l \in 1 .. num_ders :
          k + l <= num_ders /\ surf_ders[k][l] # VZero(Dim)

(***************************************************************************)
(* C5: curveDerivatives returns num_ders + 1 vectors, zero for every order *)
(* above the degree; surfaceDerivatives returns the zero vector at every   *)
(* (k, l) with k > degree_u or l > degree_v, whatever the table held.      *)
(***************************************************************************)
C5_ZeroBeyondDegree ==
    /\ last = "curveDerivatives" =>
          /\ Size(curve_ders) = num_ders + 1
          /\ \A k \in curve.degree + 1 .. num_ders : curve_ders[k] = VZero(Dim)
    /\ last = "surfaceDerivatives" =>
          \A k \in 0 .. num_ders, l \in 0 .. num_ders :
              (k > surface.degree_u \/ l > surface.degree_v) =>
                  surf_ders[k][l] = VZero(Dim)

C5_Witness ==
    /\ last = "surfaceDerivatives"
    /\ surface.degree_u >= 1
    /\ num_ders > surface.degree_u
    /\ num_ders <= surface.degree_v
    /\ surf_ders[1][0] # VZero(Dim)
    /\ surf_ders[num_ders][0] = VZero(Dim)

(***************************************************************************)
(* C6: the table after a call of a derivative evaluator is the table the   *)
(* same call produces from an empty table.                                 *)
(***************************************************************************)
C6_TableFreshPerCall ==
    /\ last = "curveDerivatives" => curve_ders = CurveDerivativesNow(num_ders)
    /\ last = "rationalCurveDerivatives" =>
          \E uninit \in UninitValues :
              curve_ders = rationalCurveDerivatives(Dim, u, curve.degree, curve.knots,
                                                    curve.control_points, curve.weights,
                                                    num_ders, Empty, uninit)
    /\ last = "surfaceDerivatives" => surf_ders = SurfaceDerivativesNow(num_ders)
    /\ last = "rationalSurfaceDerivatives" =>
          surf_ders = RationalSurfaceDerivativesNow(num_ders)

(***************************************************************************)
(* C7: on a clamped knot vector curvePoint returns the first control point *)
(* at the minimum and the last control point at the maximum of the domain; *)
(* surfacePoint returns the four corner control points at the four corners.*)
(***************************************************************************)
C7_ClampedEndpoints ==
    /\ (last = "curvePoint" /\ CurveValid /\ Clamped(curve.degree, curve.knots)) =>
          /\ u = DomainMin(curve.degree, curve.knots) =>
                point = curve.control_points[0]
          /\ u = DomainMax(curve.degree, curve.knots) =>
                point = curve.control_points[Size(curve.control_points) - 1]
    /\ (/\ last = "surfacePoint" /\ SurfaceValid
        /\ Clamped(surface.degree_u, surface.knots_u)
        /\ Clamped(surface.degree_v, surface.knots_v)) =>
          LET cp == surface.control_points
              n  == Size(cp)
              m  == Size(cp[0])
              lo_u == DomainMin(surface.degree_u, surface.knots_u)
              hi_u == DomainMax(surface.degree_u, surface.knots_u)
              lo_v == DomainMin(surface.degree_v, surface.knots_v)
              hi_v == DomainMax(surface.degree_v, surface.knots_v)
          IN  /\ (u = lo_u /\ v = lo_v) => point = cp[0][0]
              /\ (u = hi_u /\ v = lo_v) => point = cp[n - 1][0]
              /\ (u = lo_u /\ v = hi_v) => point = cp[0][m - 1]
              /\ (u = hi_u /\ v = hi_v) => point = cp[n - 1][m - 1]

C7_Witness ==
    /\ last = "curvePoint"
    /\ Clamped(curve.degree, curve.knots)
    /\ curve.degree >= 2
    /\ Size(curve.control_points) > curve.degree + 1
    /\ u = DomainMax(curve.degree, curve.knots)
    /\ point = curve.control_points[Size(curve.control_points) - 1]
    /\ point # curve.control_points[0]

(***************************************************************************)
(* C8: rationalCurveDerivatives splits each homogeneous derivative into    *)
(* A_k, its first Dim components, and w_k, its last component, and returns *)
(* C_k = (A_k - sum over i in 1 .. k of binomial(k,i) w_i C_{k-i}) / w_0,  *)
(* C_0 being the point of rationalCurvePoint.                              *)
(***************************************************************************)
C8_CurveQuotientRule ==
    last = "rationalCurveDerivatives" =>
        LET Cwders == CurveCwdersNow(num_ders)
            A(k) == truncateHomogenous(Cwders[k])
            w(k) == Cwders[k][Dim]
        IN  /\ \A k \in 0 .. num_ders :
                  LET term(i) == VScale(RMul(Num(binomial(k, i)), w(i)), curve_ders[k - i])
                  IN  curve_ders[k] = VDiv(VSub(A(k), VSum(term, k, Dim)), w(0))
            /\ curve_ders[0] = RationalCurvePointNow

(***************************************************************************)
(* C9: for every (k, l) with k + l <= num_ders rationalSurfaceDerivatives  *)
(* returns (A[k][l] - the pure-v terms - the pure-u terms - the cross      *)
(* terms binomial(k,i) binomial(l,j) w[i][j] surf_ders[k-i][l-j])          *)
(* / w[0][0].                                                              *)
(***************************************************************************)
C9_SurfaceQuotientRule ==
    last = "rationalSurfaceDerivatives" =>
        LET homo == SurfaceHomoDersNow(num_ders)
            A(k, l) == truncateHomogenous(homo[k][l])
            w(k, l) == homo[k][l][Dim]
        IN  \A k \in 0 .. num_ders : \A l \in 0 .. num_ders - k :
                LET pure_v(j) == VScale(RMul(Num(binomial(l, j)), w(0, j)),
                                        surf_ders[k][l - j])
                    pure_u(i) == VScale(RMul(Num(binomial(k, i)), w(i, 0)),
                                        surf_ders[k - i][l])
                    cross(i) ==
                        LET c(j) == VScale(RMul(Num(binomial(k, i) * binomial(l, j)),
                                                w(i, j)),
                                           surf_ders[k - i][l - j])
                        IN  VSum(c, l, Dim)
                IN  surf_ders[k][l] =
                        VDiv(VSub(VSub(VSub(A(k, l), VSum(pure_v, l, Dim)),
                                       VSum(pure_u, k, Dim)),
                                  VSum(cross, k, Dim)),
                             w(0, 0))

(***************************************************************************)
(* C10: when the degree, knot and control point counts are related as      *)
(* isValidRelation demands and the weights have the shape of the control   *)
(* points, every index an evaluator uses lies within its container.        *)
(***************************************************************************)
Accesses ==
    CASE last = "curvePoint" ->
             curvePointIdx(Dim, u, curve.degree, curve.knots, curve.control_points)
      [] last = "rationalCurvePoint" ->
             rationalCurvePointIdx(Dim, u, curve.degree, curve.knots,
                                   curve.control_points, curve.weights)
      [] last = "curveDerivatives" ->
             curveDerivativesIdx(Dim, u, curve.degree, curve.knots,
                                 curve.control_points, num_ders)
      [] last = "rationalCurveDerivatives" ->
             rationalCurveDerivativesIdx(Dim, u, curve.degree, curve.knots,
                                         curve.control_points, curve.weights, num_ders)
      [] last = "surfacePoint" ->
             surfacePointIdx(Dim, u, v, surface.degree_u, surface.degree_v,
                             surface.knots_u, surface.knots_v, surface.control_points)
      [] last = "rationalSurfacePoint" ->
             rationalSurfacePointIdx(Dim, u, v, surface.degree_u, surface.degree_v,
                                     surface.knots_u, surface.knots_v,
                                     surface.control_points, surface.weights)
      [] last = "surfaceDerivatives" ->
             surfaceDerivativesIdx(Dim, u, v, surface.degree_u, surface.degree_v,
                                   surface.knots_u, surface.knots_v,
                                   surface.control_points, num_ders)
      [] last = "rationalSurfaceDerivatives" ->
             rationalSurfaceDerivativesIdx(Dim, u, v, surface.degree_u,
                                           surface.degree_v, surface.knots_u,
                                           surface.knots_v, surface.control_points,
                                           surface.weights, num_ders)
      [] OTHER -> {}

C10_IndexSafety ==
    ((curve # NoCurve => CurveValid) /\ (surface # NoSurface => SurfaceValid)) =>
        \A access \in Accesses : InBounds(access)

C10_Witness ==
    /\ last = "rationalSurfaceDerivatives"
    /\ SurfaceValid
    /\ surface.degree_u < num_ders
    /\ num_ders < surface.degree_v
    /\ Size(surface.control_points) > surface.degree_u + 1
    /\ <<num_ders - 1, num_ders + 1>> \in Accesses

====
